---- MODULE Spec2Model ----
(***************************************************************************)
(* Model of crates/ra_hir_def/src/item_scope.rs: the per-scope name        *)
(* resolution record ItemScope, its mutators and its queries.              *)
(*                                                                         *)
(* Option<T> is modelled as a sequence of length <= 1: None is <<>> and    *)
(* Some(x) is <<x>>.  A FxHashMap<K, V> is a function whose DOMAIN is the  *)
(* set of keys.  An iterator over a hash map has no specified order and is *)
(* modelled as a bag of its items; an iterator over a Vec is the sequence. *)
(***************************************************************************)
EXTENDS Bags, FiniteSets, Integers, Sequences, TLC

(***************************************************************************)
(* Bounds of the model.                                                    *)
(***************************************************************************)
\* The number of mutator calls the driver makes on one scope.
MaxCalls == 3
\* The number of merge calls in the collection two drivers apply.
MaxBatch == 2
\* The number of identifiers of each item kind that are classified.
MaxIdx == 5
\* The number of threads that read the builtin table.
MaxThreads == 2

(***************************************************************************)
(* Option<T>.                                                              *)
(***************************************************************************)
None == <<>>
Some(x) == <<x>>
is_none(o) == o = None
is_some(o) == o # None
\* Option::or / Option::or_else: the receiver if it is Some, else the other.
or_else(o, other) == IF is_some(o) THEN o ELSE other

(***************************************************************************)
(* Identifiers.  ModuleDefId is a tagged handle; the AdtId level of the    *)
(* enum is flattened into the tag (StructId, UnionId, EnumId).             *)
(***************************************************************************)
Id(tag, idx) == [tag |-> tag, idx |-> idx]
Mod1 == Id("ModuleId", 1)
Struct1 == Id("StructId", 1)
Trait1 == Id("TraitId", 1)
Fn1 == Id("FunctionId", 1)
Fn2 == Id("FunctionId", 2)
Mac1 == Id("MacroDefId", 1)
Mac2 == Id("MacroDefId", 2)
Impl1 == Id("ImplId", 1)
Impl2 == Id("ImplId", 2)
I32 == Id("BuiltinType", 1)
Bool == Id("BuiltinType", 2)

\* The identifiers the driver offers for each namespace, and to the logs.
TypeIds == {Mod1, Struct1, Trait1}
ValueIds == {Fn1, Fn2}
MacroIds == {Mac1, Mac2}
DefIds == {Struct1, Fn1, Trait1}
ImplIds == {Impl1, Impl2}

\* Names the driver uses, and the names of the builtin catalog.
Names == {"i32", "bar"}
BuiltinNames == {"i32", "bool"}
AllNames == Names \cup BuiltinNames

(***************************************************************************)
(* PerNs (per_ns.rs): three independent optional slots.                    *)
(***************************************************************************)
PerNs(t, v, m) == [types |-> t, values |-> v, macros |-> m]
PerNs_none == PerNs(None, None, None)
PerNs_types(t) == PerNs(Some(t), None, None)
PerNs_values(v) == PerNs(None, Some(v), None)
PerNs_macros(m) == PerNs(None, None, Some(m))
PerNs_both(t, v) == PerNs(Some(t), Some(v), None)
take_types(def) == def.types
take_values(def) == def.values
take_macros(def) == def.macros

\* The candidate records the driver passes to push_res: every record the
\* constructors of PerNs build, and one with all three slots populated (a
\* record merged earlier and passed on through collect_resolutions).
Candidates ==
    {PerNs_none, PerNs(Some(Struct1), Some(Fn2), Some(Mac2))}
        \cup {PerNs_types(t) : t \in TypeIds}
        \cup {PerNs_values(v) : v \in ValueIds}
        \cup {PerNs_macros(m) : m \in MacroIds}
        \cup {PerNs_both(t, v) : t \in TypeIds, v \in ValueIds}

(***************************************************************************)
(* FxHashMap helpers.                                                      *)
(***************************************************************************)
EmptyMap == [k \in {} |-> None]
map_get(map, k) == IF k \in DOMAIN map THEN Some(map[k]) ELSE None
map_insert(map, k, v) == [x \in (DOMAIN map) \cup {k} |-> IF x = k THEN v ELSE map[x]]

(***************************************************************************)
(* BUILTIN_SCOPE: one type-only record per entry of BuiltinType::ALL.      *)
(***************************************************************************)
BuiltinType_ALL == [n \in BuiltinNames |-> IF n = "i32" THEN I32 ELSE Bool]
BUILTIN_SCOPE == [n \in DOMAIN BuiltinType_ALL |-> PerNs_types(BuiltinType_ALL[n])]

(***************************************************************************)
(* ItemScope and its state.                                                *)
(*   scope   the ItemScope the driver works on                             *)
(*   last    the last call made on it: operation, name argument, other     *)
(*           argument, the binding the map held for the name before the    *)
(*           call, and the returned value                                  *)
(*   prev    the call made before the last one                             *)
(*   ncalls  the number of mutator calls made so far                       *)
(*                                                                         *)
(* Two drivers applying one collection of merge calls to two scopes that   *)
(* start equal:                                                            *)
(*   batch        the collection, a sequence of (name, def) calls          *)
(*   left         the scope of the driver that applies batch in order      *)
(*   leftAt       the number of calls of batch applied to left             *)
(*   right        the scope of the driver that applies batch in any order, *)
(*                any number of times                                      *)
(*   rightDone    the indices of batch applied to right at least once      *)
(*   rightFirst   the index of batch applied to right first (0: none yet)  *)
(*   rightCount   the number of calls applied to right                     *)
(*                                                                         *)
(* The classification of one item:                                         *)
(*   from_def     the ModuleDefId to convert                               *)
(*   classified   the PerNs it was converted to (None: not converted yet)  *)
(*                                                                         *)
(* Snapshots of a scope A that a driver feeds into a scope B.  The tables  *)
(* of the two scopes and the snapshots are objects of a heap, so that a    *)
(* copy is an object of its own:                                           *)
(*   heap      the contents of every live object, by address               *)
(*   resSnap   the address of the Vec collect_resolutions returned on A    *)
(*             (None: not called yet)                                      *)
(*   legSnap   the address of the map collect_legacy_macros returned on A  *)
(*             (None: not called yet)                                      *)
(*                                                                         *)
(* The static BUILTIN_SCOPE, a once_cell Lazy, read by threads that each   *)
(* resolve a scope of their own:                                           *)
(*   cell       the state of the Lazy: "uninit", "running" (its closure    *)
(*              is being run) or "init"                                    *)
(*   table      the value of the Lazy (None until it is stored)            *)
(*   built      the number of times the closure was started                *)
(*   pc         where each thread is                                       *)
(*   seen       the table each thread got from its dereference             *)
(*   building   the map each thread has collected so far in the closure    *)
(*   tscope     the ItemScope of each thread                               *)
(*                                                                         *)
(* The fixed-point driver over the scopes of two modules that import each  *)
(* other:                                                                  *)
(*   mods         the ItemScope of each module                             *)
(*   trues        the number of push_res calls on each scope that returned *)
(*                true                                                     *)
(*   phase        "seed" (the items of the modules are being defined),     *)
(*                "pass" (between two imports of a pass), "feed" (the      *)
(*                resolutions of one module are being fed into another)    *)
(*                or "done" (a whole pass changed nothing)                 *)
(*   todo         the imports the current pass has not processed yet       *)
(*   feeding      the import being processed                               *)
(*   snapshot     what collect_resolutions returned for its source         *)
(*   pending      the pairs of snapshot not passed to push_res yet         *)
(*   dstBefore    visible of its target when the feeding began             *)
(*   anyChanged   whether a push_res of the current pass returned true     *)
(***************************************************************************)
VARIABLES scope, last, prev, ncalls, batch, left, leftAt, right, rightDone, rightFirst, rightCount
VARIABLES from_def, classified
VARIABLES heap, resSnap, legSnap
VARIABLES cell, table, built, pc, seen, building, tscope
VARIABLES mods, trues, phase, todo, feeding, snapshot, pending, dstBefore, anyChanged
scopeVars == <<scope, last, prev, ncalls>>
orderVars == <<batch, left, leftAt, right, rightDone, rightFirst, rightCount>>
classVars == <<from_def, classified>>
snapVars == <<heap, resSnap, legSnap>>
lazyVars == <<cell, table, built, pc, seen, building, tscope>>
driverVars == <<mods, trues, phase, todo, feeding, snapshot, pending, dstBefore, anyChanged>>
restVars == <<lazyVars, driverVars>>
vars == <<scopeVars, orderVars, classVars, snapVars, restVars>>

ItemScope_default == [visible |-> EmptyMap, defs |-> <<>>, impls |-> <<>>, legacy_macros |-> EmptyMap]

Call(op, name, arg, before, ret) == [op |-> op, name |-> name, arg |-> arg, before |-> before, ret |-> ret]

(***************************************************************************)
(* Queries.                                                                *)
(***************************************************************************)
\* The items of a hash map, in no order.
map_iter(map) == SetToBag({<<k, map[k]>> : k \in DOMAIN map})

\* A faulty variant of entries: a builtin name the scope binds is left out.
entries_deduplicated(self) ==
    map_iter(self.visible)
        (+) map_iter([n \in DOMAIN BUILTIN_SCOPE \ DOMAIN self.visible |-> BUILTIN_SCOPE[n]])

entries(self) == map_iter(self.visible) (+) map_iter(BUILTIN_SCOPE)

declarations(self) == self.defs

impls(self) == self.impls

macros(self) ==
    LET vis == self.visible
    IN SetToBag({<<n, take_macros(vis[n])[1]>> : n \in {k \in DOMAIN vis : is_some(take_macros(vis[k]))}})

legacy_macros(self) == map_iter(self.legacy_macros)

\* A faulty variant of push_res: the candidate is inserted whole when the
\* name has no entry, and dropped otherwise.
push_res_or_insert(self, name, def) ==
    IF name \in DOMAIN self.visible
    THEN [self |-> self, ret |-> FALSE]
    ELSE [self |-> [self EXCEPT !.visible = map_insert(self.visible, name, def)],
          ret |-> \E ns \in {"types", "values", "macros"} : is_some(def[ns])]

\* A faulty variant of get: the module test of the Other mode left out.
get_without_module_test(self, name, shadow) ==
    or_else(map_get(self.visible, name), map_get(BUILTIN_SCOPE, name))

is_module(o) == is_some(o) /\ o[1].tag = "ModuleId"
is_trait(o) == is_some(o) /\ o[1].tag = "TraitId"

get(self, name, shadow) ==
    IF shadow = "Module"
    THEN or_else(map_get(self.visible, name), map_get(BUILTIN_SCOPE, name))
    ELSE LET item == map_get(self.visible, name)
         IN IF is_some(item) /\ is_module(take_types(item[1]))
            THEN or_else(map_get(BUILTIN_SCOPE, name), item)
            ELSE or_else(item, map_get(BUILTIN_SCOPE, name))

\* A faulty variant of traits: the traits declared in the scope are added.
traits_with_declarations(self) ==
    LET vis == self.visible
        declared == {i \in 1..Len(self.defs) : self.defs[i].tag = "TraitId"}
        holders(t) == {n \in DOMAIN vis : take_types(vis[n]) = Some(t)}
        found == {take_types(vis[n])[1] : n \in {k \in DOMAIN vis : is_trait(take_types(vis[k]))}}
    IN [t \in found |-> Cardinality(holders(t))]
           (+) [t \in {self.defs[i] : i \in declared} |->
                   Cardinality({i \in declared : self.defs[i] = t})]

traits(self) ==
    LET vis == self.visible
        holders(t) == {n \in DOMAIN vis : take_types(vis[n]) = Some(t)}
        found == {take_types(vis[n])[1] : n \in {k \in DOMAIN vis : is_trait(take_types(vis[k]))}}
    IN [t \in found |-> Cardinality(holders(t))]

get_legacy_macro(self, name) == map_get(self.legacy_macros, name)

(***************************************************************************)
(* Mutators.                                                               *)
(***************************************************************************)
\* Faulty variants of the mutators: a declaration list without duplicates,
\* a legacy macro that is never overwritten, and a legacy macro that is
\* also made visible as a module scoped macro.
define_def_once(self, def) ==
    IF \E i \in 1..Len(self.defs) : self.defs[i] = def
    THEN self
    ELSE [self EXCEPT !.defs = Append(self.defs, def)]
define_legacy_macro_keep_first(self, name, mac) ==
    IF name \in DOMAIN self.legacy_macros
    THEN self
    ELSE [self EXCEPT !.legacy_macros = map_insert(self.legacy_macros, name, mac)]
define_legacy_macro_visible(self, name, mac) ==
    [self EXCEPT !.legacy_macros = map_insert(self.legacy_macros, name, mac),
                 !.visible = map_insert(self.visible, name, PerNs_macros(mac))]

define_def(self, def) == [self EXCEPT !.defs = Append(self.defs, def)]

define_impl(self, imp) == [self EXCEPT !.impls = Append(self.impls, imp)]

define_legacy_macro(self, name, mac) ==
    [self EXCEPT !.legacy_macros = map_insert(self.legacy_macros, name, mac)]

\* Faulty variants of the slot update: one that reports and adopts every
\* offered slot, one that adopts over a bound slot, and one that resets the
\* entry instead of keeping it.
slot_adopted_every_offer(existing, def) == is_some(def)
slot_after_overwrite(existing, def) == IF is_some(def) THEN def ELSE existing
entry_or_default_reset(map, name) == map_insert(map, name, PerNs_none)

\* `self.visible.entry(name).or_default()`: the entry, inserted empty if absent.
entry_or_default(map, name) == IF name \in DOMAIN map THEN map ELSE map_insert(map, name, PerNs_none)

\* A faulty variant of push_res: the merge is right, but `changed` is set
\* for every slot the candidate offers.
push_res_reports_offers(self, name, def) ==
    LET old == IF name \in DOMAIN self.visible THEN self.visible[name] ELSE PerNs_none
        keep(existing, offered) == IF is_none(existing) THEN offered ELSE existing
        merged == PerNs(keep(old.types, def.types), keep(old.values, def.values),
                        keep(old.macros, def.macros))
    IN [self |-> [self EXCEPT !.visible = map_insert(self.visible, name, merged)],
        ret |-> is_some(def.types) \/ is_some(def.values) \/ is_some(def.macros)]

\* A faulty variant of push_res: the merge is right, but `changed` is
\* returned true whenever the name has an entry afterwards.
push_res_always_changed(self, name, def) ==
    LET old == IF name \in DOMAIN self.visible THEN self.visible[name] ELSE PerNs_none
        keep(existing, offered) == IF is_none(existing) THEN offered ELSE existing
        merged == PerNs(keep(old.types, def.types), keep(old.values, def.values),
                        keep(old.macros, def.macros))
    IN [self |-> [self EXCEPT !.visible = map_insert(self.visible, name, merged)],
        ret |-> TRUE]

\* One `if existing.f.is_none() && def.f.is_some() { existing.f = def.f; changed = true; }`.
slot_adopted(existing, def) == is_none(existing) /\ is_some(def)
slot_after(existing, def) == IF slot_adopted(existing, def) THEN def ELSE existing

\* push_res returns the scope after the call (self) and `changed` (ret).
push_res(self, name, def) ==
    LET vis0 == entry_or_default(self.visible, name)
        existing == vis0[name]
        merged == PerNs(slot_after(existing.types, def.types),
                        slot_after(existing.values, def.values),
                        slot_after(existing.macros, def.macros))
        changed == \/ slot_adopted(existing.types, def.types)
                   \/ slot_adopted(existing.values, def.values)
                   \/ slot_adopted(existing.macros, def.macros)
    IN [self |-> [self EXCEPT !.visible = map_insert(vis0, name, merged)], ret |-> changed]

(***************************************************************************)
(* The driver working on one scope: one action per mutator call.           *)
(***************************************************************************)
InitScope ==
    /\ scope = ItemScope_default
    /\ last = Call("new", "", None, None, None)
    /\ prev = Call("new", "", None, None, None)
    /\ ncalls = 0

\* No collection of merge calls is at work.
IdleOrder ==
    /\ batch = <<>>
    /\ left = ItemScope_default
    /\ leftAt = 0
    /\ right = ItemScope_default
    /\ rightDone = {}
    /\ rightFirst = 0
    /\ rightCount = 0

\* No item is being classified.
IdleClass ==
    /\ from_def = Mod1
    /\ classified = None

\* The tables of two default scopes A and B; no snapshot is taken.
ScopeA == [visible |-> "A.visible", legacy_macros |-> "A.legacy_macros"]
ScopeB == [visible |-> "B.visible", legacy_macros |-> "B.legacy_macros"]
ScopeObjects == {ScopeA.visible, ScopeA.legacy_macros, ScopeB.visible, ScopeB.legacy_macros}
IdleSnap ==
    /\ heap = [a \in ScopeObjects |-> EmptyMap]
    /\ resSnap = None
    /\ legSnap = None

\* No thread has touched the builtin table.
Threads == 1..MaxThreads
IdleLazy ==
    /\ cell = "uninit"
    /\ table = None
    /\ built = 0
    /\ pc = [t \in Threads |-> "start"]
    /\ seen = [t \in Threads |-> None]
    /\ building = [t \in Threads |-> EmptyMap]
    /\ tscope = [t \in Threads |-> ItemScope_default]

\* The modules and their imports: each module imports all of the other.
Mods == {"A", "B"}
Imports == {[src |-> "A", dst |-> "B"], [src |-> "B", dst |-> "A"]}

\* The driver has not started.
IdleDriver ==
    /\ mods = [s \in Mods |-> ItemScope_default]
    /\ trues = [s \in Mods |-> 0]
    /\ phase = "seed"
    /\ todo = {}
    /\ feeding = [src |-> "A", dst |-> "B"]
    /\ snapshot = EmptyBag
    /\ pending = EmptyBag
    /\ dstBefore = EmptyMap
    /\ anyChanged = FALSE

IdleRest == IdleLazy /\ IdleDriver

\* The specifications of the other parts leave these parts idle.
Idle == IdleOrder /\ IdleClass /\ IdleSnap /\ IdleRest
idleVars == <<orderVars, classVars, snapVars, restVars>>

Init == InitScope /\ Idle

Counted ==
    /\ ncalls < MaxCalls
    /\ ncalls' = ncalls + 1
    /\ prev' = last
    /\ UNCHANGED idleVars

DefineDef(def) ==
    /\ Counted
    /\ scope' = define_def(scope, def)
    /\ last' = Call("define_def", "", def, None, None)

DefineImpl(imp) ==
    /\ Counted
    /\ scope' = define_impl(scope, imp)
    /\ last' = Call("define_impl", "", imp, None, None)

DefineLegacyMacro(name, mac) ==
    /\ Counted
    /\ scope' = define_legacy_macro(scope, name, mac)
    /\ last' = Call("define_legacy_macro", name, mac, get_legacy_macro(scope, name), None)

PushRes(name, def) ==
    /\ Counted
    /\ LET r == push_res(scope, name, def)
       IN /\ scope' = r.self
          /\ last' = Call("push_res", name, def, map_get(scope.visible, name), Some(r.ret))

Next ==
    \/ \E def \in DefIds : DefineDef(def)
    \/ \E imp \in ImplIds : DefineImpl(imp)
    \/ \E name \in Names, mac \in MacroIds : DefineLegacyMacro(name, mac)
    \/ \E name \in Names, def \in Candidates : PushRes(name, def)

Spec == Init /\ [][Next]_vars

(***************************************************************************)
(* Two drivers and one collection of merge calls.  Both scopes start as    *)
(* the default scope; the left driver applies the calls in the order of    *)
(* the collection, the right driver applies them in any order and may      *)
(* apply a call again.  The scopes share nothing, so the interleaving of   *)
(* the two drivers is immaterial: the left driver runs first.              *)
(***************************************************************************)
MergeCalls == [name : Names, def : Candidates]

InitOrder ==
    /\ InitScope
    /\ batch \in [1..MaxBatch -> MergeCalls]
    /\ left = ItemScope_default
    /\ leftAt = 0
    /\ right = ItemScope_default
    /\ rightDone = {}
    /\ rightFirst = 0
    /\ rightCount = 0
    /\ IdleClass
    /\ IdleSnap
    /\ IdleRest

LeftMerge ==
    /\ leftAt < Len(batch)
    /\ leftAt' = leftAt + 1
    /\ left' = push_res(left, batch[leftAt + 1].name, batch[leftAt + 1].def).self
    /\ UNCHANGED <<batch, right, rightDone, rightFirst, rightCount, scopeVars, classVars, snapVars, restVars>>

RightMerge(i) ==
    /\ leftAt = Len(batch)
    /\ rightCount <= Len(batch)
    /\ rightCount' = rightCount + 1
    /\ right' = push_res(right, batch[i].name, batch[i].def).self
    /\ rightDone' = rightDone \cup {i}
    /\ rightFirst' = IF rightFirst = 0 THEN i ELSE rightFirst
    /\ UNCHANGED <<batch, left, leftAt, scopeVars, classVars, snapVars, restVars>>

NextOrder ==
    \/ LeftMerge
    \/ \E i \in DOMAIN batch : RightMerge(i)

SpecOrder == InitOrder /\ [][NextOrder]_vars

(***************************************************************************)
(* Item classification: impl From<ModuleDefId> for PerNs.                  *)
(***************************************************************************)
\* The variants of ModuleDefId, with AdtId flattened.
ModuleDefTags ==
    {"ModuleId", "FunctionId", "StructId", "UnionId", "EnumId", "EnumVariantId",
     "ConstId", "StaticId", "TraitId", "TypeAliasId", "BuiltinType"}

ModuleDefIds == {Id(tag, idx) : tag \in ModuleDefTags, idx \in 1..MaxIdx}

\* A faulty variant of the conversion: every AdtId, the enum too, is placed
\* in both namespaces.
PerNs_from_adt_both(def) ==
    CASE def.tag \in {"StructId", "UnionId", "EnumId", "EnumVariantId"} -> PerNs_both(def, def)
      [] def.tag \in {"FunctionId", "ConstId", "StaticId"} -> PerNs_values(def)
      [] def.tag \in {"ModuleId", "TraitId", "TypeAliasId", "BuiltinType"} -> PerNs_types(def)

PerNs_from(def) ==
    CASE def.tag = "ModuleId" -> PerNs_types(def)
      [] def.tag = "FunctionId" -> PerNs_values(def)
      [] def.tag \in {"StructId", "UnionId"} -> PerNs_both(def, def)
      [] def.tag = "EnumId" -> PerNs_types(def)
      [] def.tag = "EnumVariantId" -> PerNs_both(def, def)
      [] def.tag \in {"ConstId", "StaticId"} -> PerNs_values(def)
      [] def.tag = "TraitId" -> PerNs_types(def)
      [] def.tag = "TypeAliasId" -> PerNs_types(def)
      [] def.tag = "BuiltinType" -> PerNs_types(def)

InitClassify ==
    /\ InitScope
    /\ IdleOrder
    /\ from_def \in ModuleDefIds
    /\ classified = None
    /\ IdleSnap
    /\ IdleRest

Classify ==
    /\ classified = None
    /\ classified' = Some(PerNs_from(from_def))
    /\ UNCHANGED <<from_def, scopeVars, orderVars, snapVars, restVars>>

NextClassify == Classify

SpecClassify == InitClassify /\ [][NextClassify]_vars

(***************************************************************************)
(* Snapshots: collect_resolutions and collect_legacy_macros.  A scope is   *)
(* here the pair of the addresses of its two tables; `h` is the heap.      *)
(***************************************************************************)
\* The addresses a new object can get, and the one the allocator hands out.
FreeStore == {"snap.1", "snap.2"}
fresh(h) == CHOOSE a \in FreeStore : a \notin DOMAIN h
alloc(h, a, content) == [x \in (DOMAIN h) \cup {a} |-> IF x = a THEN content ELSE h[x]]

\* The ItemScope whose tables are the objects of `self` in h.
scope_at(h, self) ==
    [visible |-> h[self.visible], defs |-> <<>>, impls |-> <<>>,
     legacy_macros |-> h[self.legacy_macros]]

\* A faulty variant of collect_legacy_macros: the map itself is handed out,
\* not a clone of it.
collect_legacy_macros_shared(h, self) == [heap |-> h, ret |-> self.legacy_macros]

\* `self.visible.iter().map(|(name, res)| (name.clone(), res.clone())).collect()`:
\* a new Vec of the pairs of visible, in the order of the hash map.
resolutions(self) == map_iter(self.visible)
collect_resolutions(h, self) ==
    LET a == fresh(h)
    IN [heap |-> alloc(h, a, resolutions(scope_at(h, self))), ret |-> a]

\* `self.legacy_macros.clone()`: a new map with the same pairs.
collect_legacy_macros(h, self) ==
    LET a == fresh(h)
    IN [heap |-> alloc(h, a, h[self.legacy_macros]), ret |-> a]

\* The records the driver gives to scope A.
SnapCandidates == {PerNs_none, PerNs_types(Trait1), PerNs_values(Fn1)}

InitSnap == InitScope /\ Idle

SnapFrame == UNCHANGED <<scopeVars, orderVars, classVars, restVars>>

\* push_res on scope A.
PushResA(name, def) ==
    /\ heap' = [heap EXCEPT ![ScopeA.visible] =
                    push_res(scope_at(heap, ScopeA), name, def).self.visible]
    /\ UNCHANGED <<resSnap, legSnap>>
    /\ SnapFrame

\* define_legacy_macro on scope A.
DefineLegacyMacroA(name, mac) ==
    /\ heap' = [heap EXCEPT ![ScopeA.legacy_macros] =
                    define_legacy_macro(scope_at(heap, ScopeA), name, mac).legacy_macros]
    /\ UNCHANGED <<resSnap, legSnap>>
    /\ SnapFrame

CollectResolutions ==
    /\ resSnap = None
    /\ LET r == collect_resolutions(heap, ScopeA)
       IN /\ heap' = r.heap
          /\ resSnap' = Some(r.ret)
    /\ UNCHANGED legSnap
    /\ SnapFrame

CollectLegacyMacros ==
    /\ legSnap = None
    /\ LET r == collect_legacy_macros(heap, ScopeA)
       IN /\ heap' = r.heap
          /\ legSnap' = Some(r.ret)
    /\ UNCHANGED resSnap
    /\ SnapFrame

\* One (name, record) pair of the snapshot of A is passed to push_res on B.
FeedB(pair) ==
    /\ is_some(resSnap)
    /\ BagIn(pair, heap[resSnap[1]])
    /\ heap' = [heap EXCEPT ![ScopeB.visible] =
                    push_res(scope_at(heap, ScopeB), pair[1], pair[2]).self.visible]
    /\ UNCHANGED <<resSnap, legSnap>>
    /\ SnapFrame

NextSnap ==
    \/ \E name \in Names, def \in SnapCandidates : PushResA(name, def)
    \/ \E mac \in MacroIds : DefineLegacyMacroA("bar", mac)
    \/ CollectResolutions
    \/ CollectLegacyMacros
    \/ \E name \in Names, def \in Candidates : FeedB(<<name, def>>)

SpecSnap == InitSnap /\ [][NextSnap]_vars

(***************************************************************************)
(* The static BUILTIN_SCOPE: Lazy::new(closure).  Every use of the static  *)
(* in get and entries dereferences the Lazy: a thread that finds it        *)
(* initialized takes its value; otherwise the threads compete for the      *)
(* cell, the one that wins runs the closure and stores the result, and     *)
(* the others wait until it is stored.                                     *)
(***************************************************************************)
\* A faulty variant of the competition for the cell: a thread that finds the
\* closure running runs it too.
try_claim_unsynchronized(state) ==
    IF state # "init"
    THEN [cell |-> "running", won |-> TRUE]
    ELSE [cell |-> state, won |-> FALSE]

\* The compare-and-swap of the cell from uninitialized to running.
try_claim(state) ==
    IF state = "uninit"
    THEN [cell |-> "running", won |-> TRUE]
    ELSE [cell |-> state, won |-> FALSE]

\* `|(name, ty)| (name.clone(), PerNs::types(ty.clone().into()))`
builtin_entry(name) == PerNs_types(BuiltinType_ALL[name])

InitLazy == InitScope /\ IdleOrder /\ IdleClass /\ IdleSnap /\ IdleLazy /\ IdleDriver

LazyFrame == UNCHANGED <<scopeVars, orderVars, classVars, snapVars, driverVars>>

\* The dereference finds the cell initialized, or goes on to compete for it.
Deref(t) ==
    /\ pc[t] = "start"
    /\ IF cell = "init"
       THEN /\ seen' = [seen EXCEPT ![t] = table]
            /\ pc' = [pc EXCEPT ![t] = "done"]
       ELSE /\ pc' = [pc EXCEPT ![t] = "compete"]
            /\ UNCHANGED seen
    /\ UNCHANGED <<cell, table, built, building, tscope>>
    /\ LazyFrame

Compete(t) ==
    /\ pc[t] = "compete"
    /\ LET r == try_claim(cell)
       IN /\ cell' = r.cell
          /\ built' = IF r.won THEN built + 1 ELSE built
          /\ pc' = [pc EXCEPT ![t] = IF r.won THEN "closure" ELSE "wait"]
    /\ UNCHANGED <<table, seen, building, tscope>>
    /\ LazyFrame

\* The closure collects one entry of BuiltinType::ALL.
Collect(t, name) ==
    /\ pc[t] = "closure"
    /\ name \in DOMAIN BuiltinType_ALL \ DOMAIN building[t]
    /\ building' = [building EXCEPT ![t] = map_insert(building[t], name, builtin_entry(name))]
    /\ UNCHANGED <<cell, table, built, pc, seen, tscope>>
    /\ LazyFrame

\* The closure returns; its result is stored and the cell is initialized.
Store(t) ==
    /\ pc[t] = "closure"
    /\ DOMAIN building[t] = DOMAIN BuiltinType_ALL
    /\ table' = Some(building[t])
    /\ cell' = "init"
    /\ seen' = [seen EXCEPT ![t] = Some(building[t])]
    /\ pc' = [pc EXCEPT ![t] = "done"]
    /\ UNCHANGED <<built, building, tscope>>
    /\ LazyFrame

\* A thread that lost the competition goes on once the cell is initialized.
Wake(t) ==
    /\ pc[t] = "wait"
    /\ cell = "init"
    /\ seen' = [seen EXCEPT ![t] = table]
    /\ pc' = [pc EXCEPT ![t] = "done"]
    /\ UNCHANGED <<cell, table, built, building, tscope>>
    /\ LazyFrame

\* A thread changes its own scope.
ThreadPushRes(t) ==
    /\ tscope' = [tscope EXCEPT ![t] = push_res(tscope[t], "i32", PerNs_types(Mod1)).self]
    /\ UNCHANGED <<cell, table, built, pc, seen, building>>
    /\ LazyFrame

ThreadDefineLegacyMacro(t) ==
    /\ tscope' = [tscope EXCEPT ![t] = define_legacy_macro(tscope[t], "i32", Mac1)]
    /\ UNCHANGED <<cell, table, built, pc, seen, building>>
    /\ LazyFrame

NextLazy ==
    \E t \in Threads :
        \/ Deref(t)
        \/ Compete(t)
        \/ \E name \in BuiltinNames : Collect(t, name)
        \/ Store(t)
        \/ Wake(t)
        \/ ThreadPushRes(t)
        \/ ThreadDefineLegacyMacro(t)

SpecLazy == InitLazy /\ [][NextLazy]_vars

(***************************************************************************)
(* The fixed-point driver.  It defines the items of the modules, then      *)
(* repeats passes; a pass feeds, for every import, each pair of            *)
(* collect_resolutions of the source into push_res on the target, and the  *)
(* driver stops after a pass in which no push_res returned true.           *)
(***************************************************************************)
\* The records of the items of each module: what push_res is called with
\* while the items are defined.
SeedCandidates(s) ==
    IF s = "A"
    THEN {PerNs_none, PerNs_types(Struct1), PerNs_values(Fn1), PerNs_macros(Mac1)}
    ELSE {PerNs_types(Mod1), PerNs_macros(Mac2)}

InitDriver == InitScope /\ IdleOrder /\ IdleClass /\ IdleSnap /\ IdleLazy /\ IdleDriver

DriverFrame == UNCHANGED <<scopeVars, orderVars, classVars, snapVars, lazyVars>>

\* push_res for an item of module s.  A call that leaves the scope as it is
\* is no step.
Seed(s, name, def) ==
    /\ phase = "seed"
    /\ LET r == push_res(mods[s], name, def)
       IN /\ r.self # mods[s]
          /\ mods' = [mods EXCEPT ![s] = r.self]
          /\ trues' = [trues EXCEPT ![s] = IF r.ret THEN @ + 1 ELSE @]
    /\ UNCHANGED <<phase, todo, feeding, snapshot, pending, dstBefore, anyChanged>>
    /\ DriverFrame

StartPass ==
    /\ phase = "seed"
    /\ phase' = "pass"
    /\ todo' = Imports
    /\ anyChanged' = FALSE
    /\ UNCHANGED <<mods, trues, feeding, snapshot, pending, dstBefore>>
    /\ DriverFrame

\* collect_resolutions on the source of an import of the pass.
BeginFeed(import) ==
    /\ phase = "pass"
    /\ import \in todo
    /\ todo' = todo \ {import}
    /\ feeding' = import
    /\ snapshot' = resolutions(mods[import.src])
    /\ pending' = resolutions(mods[import.src])
    /\ dstBefore' = mods[import.dst].visible
    /\ phase' = "feed"
    /\ UNCHANGED <<mods, trues, anyChanged>>
    /\ DriverFrame

\* push_res on the target with one pair of the snapshot.
Feed(pair) ==
    /\ phase = "feed"
    /\ BagIn(pair, pending)
    /\ pending' = pending (-) SetToBag({pair})
    /\ LET r == push_res(mods[feeding.dst], pair[1], pair[2])
       IN /\ mods' = [mods EXCEPT ![feeding.dst] = r.self]
          /\ trues' = [trues EXCEPT ![feeding.dst] = IF r.ret THEN @ + 1 ELSE @]
          /\ anyChanged' = (anyChanged \/ r.ret)
    /\ UNCHANGED <<phase, todo, feeding, snapshot, dstBefore>>
    /\ DriverFrame

EndFeed ==
    /\ phase = "feed"
    /\ pending = EmptyBag
    /\ phase' = "pass"
    /\ UNCHANGED <<mods, trues, todo, feeding, snapshot, pending, dstBefore, anyChanged>>
    /\ DriverFrame

\* The pass is over: another one if a push_res returned true, else done.
EndPass ==
    /\ phase = "pass"
    /\ todo = {}
    /\ IF anyChanged
       THEN /\ todo' = Imports
            /\ anyChanged' = FALSE
            /\ UNCHANGED phase
       ELSE /\ phase' = "done"
            /\ UNCHANGED <<todo, anyChanged>>
    /\ UNCHANGED <<mods, trues, feeding, snapshot, pending, dstBefore>>
    /\ DriverFrame

NextDriver ==
    \/ \E s \in Mods, name \in Names : \E def \in SeedCandidates(s) : Seed(s, name, def)
    \/ StartPass
    \/ \E import \in Imports : BeginFeed(import)
    \/ \E name \in Names, def \in {PerNs(t, v, m) : t \in {None, Some(Struct1), Some(Mod1)},
                                                     v \in {None, Some(Fn1)},
                                                     m \in {None, Some(Mac1), Some(Mac2)}} :
          Feed(<<name, def>>)
    \/ EndFeed
    \/ EndPass

\* The driver is a loop that keeps running until it is done.
SpecDriver == InitDriver /\ [][NextDriver]_vars /\ WF_vars(NextDriver)

(***************************************************************************)
(* Vocabulary of the properties.                                           *)
(***************************************************************************)
Namespaces == {"types", "values", "macros"}
ShadowModes == {"Module", "Other"}

\* The slot of namespace ns in the binding `o` (an Option<PerNs>) of a name.
SlotOf(o, ns) == IF is_some(o) THEN o[1][ns] ELSE None

\* The slot (name, ns) of a visible table.
Bound(vis, name, ns) == SlotOf(map_get(vis, name), ns)

\* The candidate offers a slot that the binding `o` does not hold.
OffersUnbound(o, def) == \E ns \in Namespaces : is_some(def[ns]) /\ is_none(SlotOf(o, ns))

IsPushRes(c) == c.op = "push_res"

(***************************************************************************)
(* C1. First-wins monotonicity: once a slot (name, namespace) of `visible` *)
(* is bound, no later push_res, define_def, define_impl or                 *)
(* define_legacy_macro call changes or unbinds it, and a push_res call     *)
(* whose candidate offers values only for already-bound slots of the name  *)
(* returns false.                                                          *)
(***************************************************************************)
C1_SlotKept ==
    \A name \in Names, ns \in Namespaces :
        is_some(Bound(scope.visible, name, ns))
            => Bound(scope'.visible, name, ns) = Bound(scope.visible, name, ns)

C1_NothingNewIsFalse ==
    (IsPushRes(last') /\ ~OffersUnbound(map_get(scope.visible, last'.name), last'.arg))
        => last'.ret = Some(FALSE)

\* C1: every step keeps each bound slot of visible, and a push_res that
\* offers nothing for an unbound slot of its name returns false.
C1_FirstWins == [][C1_SlotKept /\ C1_NothingNewIsFalse]_vars

\* push_res(bar, values(Fn1)) was followed by push_res(bar, values(Fn2)),
\* which returned false and left the value slot at Fn1.
C1_Witness ==
    /\ IsPushRes(last)
    /\ last.name = "bar"
    /\ last.arg = PerNs_values(Fn2)
    /\ SlotOf(last.before, "values") = Some(Fn1)
    /\ last.ret = Some(FALSE)
    /\ Bound(scope.visible, "bar", "values") = Some(Fn1)

(***************************************************************************)
(* C2. Confluence of push_res.                                             *)
(* As claimed: for any collection of merge calls applied to the same       *)
(* starting scope, applying them any number of times and in any order      *)
(* ends in the same visible table.                                         *)
(* As amended: that holds of a collection in which no two calls offer      *)
(* different identifiers for the same (name, namespace) slot; where two    *)
(* calls do, the slot ends up with the identifier offered first in call    *)
(* order, so the final table depends on the order.                         *)
(***************************************************************************)
BothDone == leftAt = Len(batch) /\ rightDone = DOMAIN batch

\* The calls of the collection that offer the slot (name, ns).
Offering(name, ns) == {i \in DOMAIN batch : batch[i].name = name /\ is_some(batch[i].def[ns])}

NoConflict ==
    \A name \in Names, ns \in Namespaces :
        \A i, j \in Offering(name, ns) : batch[i].def[ns] = batch[j].def[ns]

\* The offer for the slot (name, ns) that comes first in the collection.
FirstOffer(name, ns) ==
    IF Offering(name, ns) = {}
    THEN None
    ELSE batch[CHOOSE i \in Offering(name, ns) : \A j \in Offering(name, ns) : i <= j].def[ns]

\* C2 as claimed: once both drivers have applied every call, the two visible
\* tables are equal.
C2_AnyOrderSameTable == BothDone => left.visible = right.visible

\* C2 as amended: the tables are equal when no two calls offer different
\* identifiers for one slot; applied in order to the default scope, each slot
\* holds its first offer, and in any order it holds one of its offers.
C2_ConfluentWithoutConflict ==
    BothDone =>
        /\ NoConflict => left.visible = right.visible
        /\ \A name \in Names, ns \in Namespaces :
              /\ Bound(left.visible, name, ns) = FirstOffer(name, ns)
              /\ Bound(right.visible, name, ns) \in
                    {batch[i].def[ns] : i \in Offering(name, ns)} \cup {FirstOffer(name, ns)}

\* bar is offered a type and then a value; the right driver applied the
\* value first and one of the calls twice, and both tables agree.
C2_Witness ==
    /\ BothDone
    /\ batch[1] = [name |-> "bar", def |-> PerNs_types(Struct1)]
    /\ batch[2] = [name |-> "bar", def |-> PerNs_values(Fn1)]
    /\ rightFirst = 2
    /\ rightCount > Len(batch)
    /\ map_get(left.visible, "bar") = Some(PerNs_both(Struct1, Fn1))
    /\ right.visible = left.visible

(***************************************************************************)
(* C3. Exact effect and result of push_res(name, candidate): in each of    *)
(* the three namespaces the slot of visible[name] after the call is the    *)
(* candidate's slot if the slot was absent before and the candidate's is   *)
(* present, and the previous slot otherwise; the call returns true exactly *)
(* when at least one slot was adopted.                                     *)
(***************************************************************************)
\* C3: after push_res each slot of visible[name] is the adopted candidate slot
\* or the slot held before, and the result is true iff a slot was adopted.
C3_ExactEffect ==
    IsPushRes(last) =>
        /\ last.name \in DOMAIN scope.visible
        /\ \A ns \in Namespaces :
              scope.visible[last.name][ns] =
                  IF is_none(SlotOf(last.before, ns)) /\ is_some(last.arg[ns])
                  THEN last.arg[ns]
                  ELSE SlotOf(last.before, ns)
        /\ last.ret = Some(\E ns \in Namespaces :
                              is_none(SlotOf(last.before, ns)) /\ is_some(last.arg[ns]))

\* push_res(bar, types(Struct1)) then push_res(bar, values(Fn1)): both
\* returned true and bar holds type Struct1 and value Fn1.
C3_Witness ==
    /\ IsPushRes(prev) /\ prev.name = "bar" /\ prev.arg = PerNs_types(Struct1)
    /\ prev.ret = Some(TRUE)
    /\ IsPushRes(last) /\ last.name = "bar" /\ last.arg = PerNs_values(Fn1)
    /\ last.ret = Some(TRUE)
    /\ get(scope, "bar", "Module") = Some(PerNs_both(Struct1, Fn1))

(***************************************************************************)
(* C4. Calling push_res twice in succession with the same arguments.       *)
(* As claimed: the first call returns true and the second false, whatever  *)
(* the name, the candidate and the state.                                  *)
(* As amended: the second call returns false; the first returns true       *)
(* exactly when the candidate has a binding in a namespace whose slot for  *)
(* the name was absent before the first call.                              *)
(***************************************************************************)
TwiceInSuccession ==
    /\ IsPushRes(prev)
    /\ IsPushRes(last)
    /\ last.name = prev.name
    /\ last.arg = prev.arg

\* C4 as claimed: of two successive identical push_res calls the first
\* returns true and the second false.
C4_TrueThenFalse ==
    TwiceInSuccession => (prev.ret = Some(TRUE) /\ last.ret = Some(FALSE))

\* C4 as amended: the second call returns false, and the first returns true
\* iff its candidate offered a slot that was absent before it.
C4_SecondIsFalse ==
    TwiceInSuccession =>
        /\ last.ret = Some(FALSE)
        /\ prev.ret = Some(OffersUnbound(prev.before, prev.arg))

\* The same candidate was pushed twice and the first call adopted a slot.
C4_Witness ==
    /\ TwiceInSuccession
    /\ prev.ret = Some(TRUE)
    /\ last.ret = Some(FALSE)

(***************************************************************************)
(* C5. get with BuiltinShadowMode::Other: if visible[name] exists, its     *)
(* type slot references a module and the builtin table has an entry for    *)
(* the name, the result is the builtin entry; otherwise it is the scope's  *)
(* own visible[name] if present, else the builtin entry, else absence.     *)
(***************************************************************************)
\* C5: get in the Other mode prefers the builtin entry over a module of the
\* same name, and otherwise the scope's entry over the builtin entry.
C5_BuiltinPreferred ==
    \A name \in AllNames :
        LET vis == scope.visible
            module_here == /\ name \in DOMAIN vis
                           /\ vis[name].types # None
                           /\ vis[name].types[1].tag = "ModuleId"
        IN get(scope, name, "Other") =
              IF module_here /\ name \in DOMAIN BUILTIN_SCOPE THEN Some(BUILTIN_SCOPE[name])
              ELSE IF name \in DOMAIN vis THEN Some(vis[name])
              ELSE IF name \in DOMAIN BUILTIN_SCOPE THEN Some(BUILTIN_SCOPE[name])
              ELSE None

\* i32 is bound to a module in the type namespace only: the Other mode
\* answers with the builtin entry and the Module mode with the module.
C5_Witness ==
    /\ map_get(scope.visible, "i32") = Some(PerNs_types(Mod1))
    /\ get(scope, "i32", "Other") = Some(PerNs_types(I32))
    /\ get(scope, "i32", "Module") = Some(PerNs_types(Mod1))

(***************************************************************************)
(* C6. get with BuiltinShadowMode::Module: the result is the scope's own   *)
(* binding for the name if the scope has any binding for it, and otherwise *)
(* the builtin table's entry (absence if there is none); a builtin name    *)
(* falls back to the builtin entry whenever the scope holds no resolution  *)
(* for it in any namespace.                                                *)
(***************************************************************************)
HoldsResolution(name) == \E ns \in Namespaces : is_some(Bound(scope.visible, name, ns))

\* C6: get in the Module mode returns the scope's binding if the scope holds
\* a resolution for the name, and the builtin entry (or absence) if not.
C6_ModulePreferred ==
    \A name \in AllNames :
        get(scope, name, "Module") =
            IF HoldsResolution(name) THEN Some(scope.visible[name])
            ELSE map_get(BUILTIN_SCOPE, name)

(***************************************************************************)
(* C7. Legacy macro last-write-wins: get_legacy_macro(name) returns the    *)
(* macro of the most recent define_legacy_macro(name, _) call, or absence  *)
(* if there was none: it is absent at first, every define_legacy_macro     *)
(* call sets it for its name, and no other call changes it.                *)
(***************************************************************************)
C7_StepLastWrite ==
    \A name \in AllNames :
        get_legacy_macro(scope', name) =
            IF last'.op = "define_legacy_macro" /\ last'.name = name
            THEN Some(last'.arg)
            ELSE get_legacy_macro(scope, name)

\* C7: get_legacy_macro is absent at first and after every step is the
\* macro of the latest define_legacy_macro call for the name.
C7_LastWriteWins ==
    /\ \A name \in AllNames : get_legacy_macro(scope, name) = None
    /\ [][C7_StepLastWrite]_vars

\* define_legacy_macro(bar, Mac1) was followed by define_legacy_macro(bar,
\* Mac2), and bar is Mac2: the calls in the other order end with Mac1.
C7_Witness ==
    /\ prev.op = "define_legacy_macro" /\ prev.name = "bar" /\ prev.arg = Mac1
    /\ last.op = "define_legacy_macro" /\ last.name = "bar" /\ last.arg = Mac2
    /\ last.before = Some(Mac1)
    /\ get_legacy_macro(scope, "bar") = Some(Mac2)

(***************************************************************************)
(* C8. Legacy macros are isolated from ordinary resolution:                *)
(* define_legacy_macro changes the result of get (in either mode),         *)
(* macros(), traits() and entries() for no name, push_res changes neither  *)
(* get_legacy_macro nor legacy_macros(), and macros() yields exactly the   *)
(* (name, macro) pairs of the visible entries whose macro slot is set.     *)
(***************************************************************************)
SameResolution ==
    /\ \A name \in AllNames, shadow \in ShadowModes :
          get(scope', name, shadow) = get(scope, name, shadow)
    /\ macros(scope') = macros(scope)
    /\ traits(scope') = traits(scope)
    /\ entries(scope') = entries(scope)

SameLegacy ==
    /\ \A name \in AllNames : get_legacy_macro(scope', name) = get_legacy_macro(scope, name)
    /\ legacy_macros(scope') = legacy_macros(scope)

MacrosOfVisible(self) ==
    SetToBag({pair \in Names \X MacroIds :
                 Bound(self.visible, pair[1], "macros") = Some(pair[2])})

C8_StepIsolated ==
    /\ last'.op = "define_legacy_macro" => SameResolution
    /\ IsPushRes(last') => SameLegacy
    /\ macros(scope') = MacrosOfVisible(scope')

\* C8: no define_legacy_macro step changes get, macros, traits or entries,
\* no push_res step changes the legacy macros, and macros() is read from the
\* macro slots of visible alone.
C8_LegacyIsolated == [][C8_StepIsolated]_vars

\* bar has the module scoped macro Mac1 and then gets the legacy macro
\* Mac2: macros() still yields (bar, Mac1) alone.
C8_Witness ==
    /\ IsPushRes(prev) /\ prev.name = "bar" /\ prev.arg = PerNs_macros(Mac1)
    /\ last.op = "define_legacy_macro" /\ last.name = "bar" /\ last.arg = Mac2
    /\ macros(scope) = SetToBag({<<"bar", Mac1>>})
    /\ legacy_macros(scope) = SetToBag({<<"bar", Mac2>>})

(***************************************************************************)
(* C9. entries() does not deduplicate: it yields one pair per key of       *)
(* visible plus one pair per entry of the builtin table, so a name that is *)
(* a key of visible and a builtin name appears exactly twice, once with    *)
(* the local record and once with the builtin record.                      *)
(***************************************************************************)
\* The number of pairs of the bag whose name is `name`.
PairsNamed(bag, name) ==
    BagCardinality([pair \in {p \in DOMAIN bag : p[1] = name} |-> bag[pair]])

InTable(map, name) == IF name \in DOMAIN map THEN 1 ELSE 0

\* C9: entries() holds |visible| + |builtin| pairs, one per key of visible
\* and one per builtin name, so a shadowing name appears twice.
C9_EntriesChained ==
    LET all == entries(scope)
        vis == scope.visible
    IN /\ BagCardinality(all) = Cardinality(DOMAIN vis) + Cardinality(DOMAIN BUILTIN_SCOPE)
       /\ \A name \in AllNames :
             /\ PairsNamed(all, name) = InTable(vis, name) + InTable(BUILTIN_SCOPE, name)
             /\ name \in DOMAIN vis => BagIn(<<name, vis[name]>>, all)
             /\ name \in DOMAIN BUILTIN_SCOPE => BagIn(<<name, BUILTIN_SCOPE[name]>>, all)

\* The scope binds i32 to a type of its own: entries() yields i32 twice.
C9_Witness ==
    /\ Bound(scope.visible, "i32", "types") = Some(Struct1)
    /\ PairsNamed(entries(scope), "i32") = 2
    /\ BagIn(<<"i32", PerNs_types(I32)>>, entries(scope))

(***************************************************************************)
(* C10. The declaration and impl lists are append-only logs: both start    *)
(* empty, define_def appends its argument to declarations(), define_impl   *)
(* appends its argument to impls(), no other call changes either list,     *)
(* and define_def and define_impl leave visible and legacy_macros as they  *)
(* were.                                                                   *)
(***************************************************************************)
C10_StepAppend ==
    /\ declarations(scope') =
          IF last'.op = "define_def"
          THEN declarations(scope) \o <<last'.arg>>
          ELSE declarations(scope)
    /\ impls(scope') =
          IF last'.op = "define_impl"
          THEN impls(scope) \o <<last'.arg>>
          ELSE impls(scope)
    /\ Len(impls(scope')) = Len(impls(scope)) + (IF last'.op = "define_impl" THEN 1 ELSE 0)
    /\ last'.op \in {"define_def", "define_impl"} =>
          /\ scope'.visible = scope.visible
          /\ scope'.legacy_macros = scope.legacy_macros

\* C10: declarations() and impls() start empty and grow only by the argument
\* of define_def and define_impl, which leave visible and legacy_macros alone.
C10_AppendOnly ==
    /\ declarations(scope) = <<>>
    /\ impls(scope) = <<>>
    /\ [][C10_StepAppend]_vars

\* define_def(Fn1) twice, then a push_res: the list holds Fn1 twice.
C10_Witness ==
    /\ declarations(scope) = <<Fn1, Fn1>>
    /\ IsPushRes(last)
    /\ scope.visible # EmptyMap

(***************************************************************************)
(* C13. traits() yields exactly the trait identifiers held in the type     *)
(* slot of the entries of visible, one per such entry: an entry whose type *)
(* slot is absent or is no trait contributes nothing, and neither do the   *)
(* builtin table, the legacy macros and the items of define_def.           *)
(***************************************************************************)
TraitHolders(self, t) == {name \in Names : Bound(self.visible, name, "types") = Some(t)}

TraitsOfVisible(self) ==
    LET held == {t \in TypeIds : t.tag = "TraitId" /\ TraitHolders(self, t) # {}}
    IN [t \in held |-> Cardinality(TraitHolders(self, t))]

\* C13: traits() is the bag of the traits in the type slots of visible.
C13_TraitsOfTypeSlots ==
    /\ traits(scope) = TraitsOfVisible(scope)
    /\ BagCardinality(traits(scope)) =
          Cardinality({name \in Names :
                          /\ is_some(Bound(scope.visible, name, "types"))
                          /\ Bound(scope.visible, name, "types")[1].tag = "TraitId"})

\* bar is a trait, i32 is a module and a trait was declared with
\* define_def: traits() yields the trait of bar alone.
C13_Witness ==
    /\ Bound(scope.visible, "bar", "types") = Some(Trait1)
    /\ Bound(scope.visible, "i32", "types") = Some(Mod1)
    /\ declarations(scope) = <<Trait1>>
    /\ traits(scope) = SetToBag({Trait1})

(***************************************************************************)
(* C15. A push_res call that returns false leaves the ItemScope exactly as *)
(* it was: the scope is equal to the scope before the call, and get (in    *)
(* both modes), entries(), macros() and the resolutions collected from it  *)
(* are the same as before, for every candidate and every name.             *)
(***************************************************************************)
C15_StepFalseIsNoChange ==
    (IsPushRes(last') /\ last'.ret = Some(FALSE)) =>
        /\ scope' = scope
        /\ \A name \in AllNames, shadow \in ShadowModes :
              get(scope', name, shadow) = get(scope, name, shadow)
        /\ entries(scope') = entries(scope)
        /\ macros(scope') = macros(scope)
        /\ map_iter(scope'.visible) = map_iter(scope.visible)

\* C15: every push_res step that returns false leaves the scope and the
\* results of its queries as they were.
C15_FalseLeavesScope == [][C15_StepFalseIsNoChange]_vars

(***************************************************************************)
(* C18. push_res is idempotent on state: repeating a push_res call at once *)
(* with the same arguments returns false and leaves visible as the first   *)
(* call produced it, whatever the first call returned.                     *)
(***************************************************************************)
C18_StepRepeat ==
    (IsPushRes(last) /\ IsPushRes(last') /\ last'.name = last.name /\ last'.arg = last.arg) =>
        /\ last'.ret = Some(FALSE)
        /\ scope'.visible = scope.visible

\* C18: a push_res step that repeats the call before it returns false and
\* changes no entry of visible.
C18_Idempotent == [][C18_StepRepeat]_vars

\* A candidate that adopted nothing the first time was pushed again: the
\* first call returned false and so did the repeat.
C18_Witness ==
    /\ TwiceInSuccession
    /\ prev.ret = Some(FALSE)
    /\ last.ret = Some(FALSE)
    /\ last.arg # PerNs_none
    /\ map_get(scope.visible, last.name) = last.before

(***************************************************************************)
(* C12. Item classification is total and matches the table: module,        *)
(* trait, type alias, builtin type and enum yield a record with only the   *)
(* type slot set to the identifier; function, constant and static yield    *)
(* only the value slot; structure, union and enum variant yield the type   *)
(* and the value slot, both the identifier; the macro slot is never set.   *)
(***************************************************************************)
TypeKinds == {"ModuleId", "TraitId", "TypeAliasId", "BuiltinType", "EnumId"}
ValueKinds == {"FunctionId", "ConstId", "StaticId"}
BothKinds == {"StructId", "UnionId", "EnumVariantId"}

\* C12: the record an item was converted to has the slots of its kind's row
\* of the table, and every kind has a row.
C12_ClassificationTable ==
    /\ from_def.tag \in TypeKinds \cup ValueKinds \cup BothKinds
    /\ is_some(classified) =>
          LET rec == classified[1]
          IN /\ rec.macros = None
             /\ from_def.tag \in TypeKinds => (rec.types = <<from_def>> /\ rec.values = None)
             /\ from_def.tag \in ValueKinds => (rec.types = None /\ rec.values = <<from_def>>)
             /\ from_def.tag \in BothKinds => (rec.types = <<from_def>> /\ rec.values = <<from_def>>)

\* A structure was converted: both slots hold its identifier.
C12_Witness ==
    /\ from_def = Struct1
    /\ classified = Some([types |-> <<Struct1>>, values |-> <<Struct1>>, macros |-> <<>>])

(***************************************************************************)
(* C11. Snapshots are independent copies: collect_resolutions and          *)
(* collect_legacy_macros return the contents of visible / legacy_macros    *)
(* as of the call and leave the scope unchanged; later push_res or         *)
(* define_legacy_macro calls on the source scope do not alter a snapshot   *)
(* already taken; feeding a snapshot of A into push_res calls on B leaves  *)
(* A unchanged.                                                            *)
(***************************************************************************)
SameObjects(addrs) == \A a \in addrs : heap'[a] = heap[a]

C11_StepSnapshot ==
    \* A snapshot already taken is not altered by any later call.
    /\ is_some(resSnap) => (resSnap' = resSnap /\ SameObjects({resSnap[1]}))
    /\ is_some(legSnap) => (legSnap' = legSnap /\ SameObjects({legSnap[1]}))
    \* collect_resolutions returns the pairs of visible as of the call and
    \* leaves the scopes unchanged.
    /\ (is_none(resSnap) /\ is_some(resSnap')) =>
          /\ heap'[resSnap'[1]] =
                SetToBag({<<n, heap[ScopeA.visible][n]>> : n \in DOMAIN heap[ScopeA.visible]})
          /\ SameObjects(ScopeObjects)
    \* collect_legacy_macros returns the pairs of legacy_macros as of the
    \* call and leaves the scopes unchanged.
    /\ (is_none(legSnap) /\ is_some(legSnap')) =>
          /\ heap'[legSnap'[1]] = heap[ScopeA.legacy_macros]
          /\ SameObjects(ScopeObjects)
    \* A push_res on B leaves A unchanged.
    /\ heap'[ScopeB.visible] # heap[ScopeB.visible] =>
          SameObjects({ScopeA.visible, ScopeA.legacy_macros})

\* C11: every call keeps the snapshots already taken, a snapshot holds the
\* contents as of its call, and neither taking nor feeding one changes A.
C11_SnapshotsIndependent == [][C11_StepSnapshot]_vars

\* Both snapshots were taken, A was changed afterwards in both tables, and the
\* snapshot was fed into B, which now holds what the snapshot holds.
C11_Witness ==
    /\ is_some(resSnap)
    /\ is_some(legSnap)
    /\ heap[resSnap[1]] = SetToBag({<<"bar", PerNs_types(Trait1)>>})
    /\ heap[ScopeA.visible] = [n \in Names |-> PerNs(Some(Trait1), Some(Fn1), None)]
    /\ heap[legSnap[1]] = [n \in {"bar"} |-> Mac1]
    /\ heap[ScopeA.legacy_macros] = [n \in {"bar"} |-> Mac2]
    /\ heap[ScopeB.visible] = [n \in {"bar"} |-> PerNs_types(Trait1)]

(***************************************************************************)
(* C14. The builtin table is an initialize-once, read-only singleton:      *)
(* under any interleaving of threads that read it on independent scopes,   *)
(* its construction runs at most once, every reader observes the same      *)
(* fully built table (one type-only record per builtin type name), and no  *)
(* ItemScope operation ever changes it.                                    *)
(***************************************************************************)
FullyBuilt(o) ==
    /\ is_some(o)
    /\ DOMAIN o[1] = BuiltinNames
    /\ \A n \in BuiltinNames :
          /\ o[1][n].types = Some(IF n = "i32" THEN I32 ELSE Bool)
          /\ o[1][n].values = None
          /\ o[1][n].macros = None

C14_StateOnce ==
    /\ built <= 1
    /\ \A t \in Threads : IF pc[t] = "done" THEN FullyBuilt(seen[t]) ELSE seen[t] = None
    /\ \A t, u \in Threads : (pc[t] = "done" /\ pc[u] = "done") => seen[t] = seen[u]
    /\ cell = "init" <=> is_some(table)

C14_StepReadOnly ==
    /\ is_some(table) => (table' = table /\ cell' = cell)
    /\ table' # table => (cell = "running" /\ cell' = "init")
    /\ tscope' # tscope => (table' = table /\ cell' = cell)

\* C14: the closure is started at most once, every thread that has read the
\* table got the same full table, and the stored table never changes.
C14_InitializeOnce == []C14_StateOnce /\ [][C14_StepReadOnly]_vars

\* Every thread has read the table, which was built once, and the first
\* thread has shadowed i32 in its own scope.
C14_Witness ==
    /\ \A t \in Threads : pc[t] = "done"
    /\ built = 1
    /\ is_module(Bound(tscope[1].visible, "i32", "types"))
    /\ \A t \in Threads \ {1} : tscope[t] = ItemScope_default

(***************************************************************************)
(* C16. The fixed-point driver loop terminates: along any sequence of      *)
(* push_res calls on one scope over the names N at most 3*|N| calls        *)
(* return true (each true result binds at least one previously unbound     *)
(* (name, namespace) slot and no slot is ever unbound), so a driver that   *)
(* repeats passes until a whole pass returns no true reaches such a pass   *)
(* after finitely many passes.                                             *)
(***************************************************************************)
BoundSlots(self) ==
    {<<name, ns>> \in Names \X Namespaces : is_some(Bound(self.visible, name, ns))}

C16_StateBounded ==
    \A s \in Mods :
        /\ trues[s] <= Cardinality(Namespaces) * Cardinality(Names)
        /\ trues[s] <= Cardinality(BoundSlots(mods[s]))

C16_StepBinds ==
    \A s \in Mods :
        /\ trues'[s] # trues[s] =>
              /\ trues'[s] = trues[s] + 1
              /\ BoundSlots(mods'[s]) \ BoundSlots(mods[s]) # {}
        /\ \A name \in Names, ns \in Namespaces :
              is_some(Bound(mods[s].visible, name, ns)) =>
                  Bound(mods'[s].visible, name, ns) = Bound(mods[s].visible, name, ns)

\* C16: at most 3*|N| push_res calls on a scope return true, each of them
\* binds a slot that was unbound, no slot is unbound again, and the driver
\* reaches a pass without a true result.
C16_Terminates ==
    /\ []C16_StateBounded
    /\ [][C16_StepBinds]_vars
    /\ <>(phase = "done")

\* The driver is done; every slot of A was bound by a call of its own and B
\* got all of them from A in one pass.
C16_Witness ==
    /\ phase = "done"
    /\ trues["A"] = Cardinality(Namespaces) * Cardinality(Names)
    /\ trues["B"] = Cardinality(Names)
    /\ mods["B"].visible = mods["A"].visible

(***************************************************************************)
(* C17. Propagation completeness: after every (name, record) pair of       *)
(* collect_resolutions of A has been passed to push_res on B, every slot   *)
(* bound in the snapshot of A is bound in B, holding either the identifier *)
(* B already had in that slot or the identifier from A; slots of B for     *)
(* names or namespaces not bound in A are unchanged.                       *)
(***************************************************************************)
\* The slot (name, ns) of a snapshot, a bag of (name, record) pairs.
SnapshotSlot(pairs, name, ns) ==
    IF \E pair \in BagToSet(pairs) : pair[1] = name
    THEN (CHOOSE pair \in BagToSet(pairs) : pair[1] = name)[2][ns]
    ELSE None

FeedComplete == phase = "feed" /\ pending = EmptyBag

\* C17: when the whole snapshot has been fed, a slot bound in it is bound in
\* the target to the target's earlier identifier or to the snapshot's one,
\* and every other slot of the target is as it was.
C17_PropagationComplete ==
    FeedComplete =>
        \A name \in Names, ns \in Namespaces :
            LET offered == SnapshotSlot(snapshot, name, ns)
                earlier == Bound(dstBefore, name, ns)
                now == Bound(mods[feeding.dst].visible, name, ns)
            IN IF is_some(offered)
               THEN is_some(now) /\ (now = earlier \/ now = offered)
               ELSE now = earlier

\* A snapshot of A was fed into B: one slot of B kept its own identifier
\* where A offered another, one took A's, and one that A does not bind is
\* as it was.
C17_Witness ==
    /\ FeedComplete
    /\ feeding.dst = "B"
    /\ SnapshotSlot(snapshot, "bar", "types") = Some(Struct1)
    /\ Bound(dstBefore, "bar", "types") = Some(Mod1)
    /\ Bound(mods["B"].visible, "bar", "types") = Some(Mod1)
    /\ SnapshotSlot(snapshot, "bar", "values") = Some(Fn1)
    /\ Bound(dstBefore, "bar", "values") = None
    /\ Bound(mods["B"].visible, "bar", "values") = Some(Fn1)
    /\ SnapshotSlot(snapshot, "i32", "macros") = None
    /\ Bound(mods["B"].visible, "i32", "macros") = Some(Mac2)

====
